---------------------------- MODULE Spec2Model ----------------------------
(***************************************************************************)
(* Model of the request-orchestration core of the trademark crawler:       *)
(*   src/src/crawlers/crawler.py   WIPOCrawler (rate limit, _make_request, *)
(*                                 validate/fetch/save, crawl_year)        *)
(*   src/proxy/proxy_manager.py    ProxyManager (rotation, liveness probe, *)
(*                                 status bookkeeping)                     *)
(*                                                                         *)
(* The crawler is one synchronous thread of control; pc is its position.   *)
(* The network, the registry's answers, the clock and the persistence      *)
(* layer are the environment: their outcomes are chosen with \E.           *)
(* Time is counted in whole seconds.  Only the time since the rate         *)
(* window's start is kept (elapsed), saturated at Window: the code reads   *)
(* the clock only through (now - last_request_time) and compares it with   *)
(* 60.                                                                     *)
(* Python's None is 0 for a proxy and "none" for a response or a result.   *)
(* Two proxies of the pool with the same host and port are not modelled:   *)
(* a pool entry is its host:port key.  The last_used timestamp that        *)
(* update_proxy_status writes next to is_active is left out.               *)
(***************************************************************************)
EXTENDS Integers, Sequences, FiniteSets, TLC

VARIABLES
    pc,                   \* position of the thread of control
    max_retries,          \* config.crawler.max_retries
    proxies,              \* ProxyManager.proxies: sequence of host:port keys
    current_proxy_index,  \* ProxyManager.current_proxy_index (0-based)
    current_proxy,        \* ProxyManager.current_proxy (0 = None)
    proxy_request_count,  \* ProxyManager.proxy_request_count (dict key -> count)
    proxy_db,             \* rows of the Proxy table: key -> is_active
    request_count,        \* WIPOCrawler.request_count
    elapsed,              \* now - WIPOCrawler.last_request_time, saturated at Window
    sequence,             \* crawl_year: sequence
    success_count,        \* crawl_year: success_count
    result,               \* crawl_year's return value ("none" until it returns)
    phase,                \* which caller runs _make_request: "validate" or "fetch"
    attempt,              \* _make_request: attempt
    proxy,                \* _make_request: proxy (0 = None / unbound)
    response,             \* _make_request's return value: "none" or "ok"
    failure,              \* why the current attempt got no response ("none": it did,
                          \* or has not failed yet)
    trace,                \* history: returns of validate, fetch and save, in order
    outcomes,             \* history: the target requests of the current call
    sleeps,               \* history: the backoff sleeps of the current call
    calllog,              \* history: the events of the current attempt
    rate_checks,          \* history: runs of _check_rate_limit in the current call
    delays,               \* history: politeness sleeps of crawl_year since the
                          \* last validate_trademark_code returned
    stop,                 \* the external stop signal and what became of it
    list_pm,              \* a ProxyManager of src/src/proxy_manager.py (its fields)
    db_session,           \* the database session: the rows of the trademark
                          \* and status-history tables
    callers,              \* threads calling _make_request on the one crawler
    list_call,            \* a _make_request call of src/src/crawler.py
    hist                  \* history of the operations called on their own (the
                          \* rate-limit check, the ProxyManager methods): what
                          \* the last one saw and did

vars == <<pc, max_retries, proxies, current_proxy_index, current_proxy,
          proxy_request_count, proxy_db, request_count, elapsed, sequence,
          success_count, result, phase, attempt, proxy, response, failure,
          trace, outcomes, sleeps, calllog, rate_checks, delays, stop, list_pm,
          db_session, callers, list_call, hist>>

proxyVars == <<proxies, current_proxy_index, current_proxy,
               proxy_request_count, proxy_db>>
rateVars == <<request_count, elapsed>>
crawlVars == <<sequence, success_count, result, trace>>
callVars == <<phase, attempt, proxy, response, failure, outcomes, sleeps,
              calllog, rate_checks>>
\* the state of what the year crawl does not run itself
compVars == <<db_session, callers, list_call>>

---------------------------------------------------------------------------
(* Bounds of the model *)

MaxProxies == 2            \* largest pool explored (pools of 0..MaxProxies)
NumStatic == 1             \* pool entries 1..NumStatic come from the static
                           \* configuration and have no row in the Proxy table
MaxRetriesCap == 3         \* max_retries ranges over 0..MaxRetriesCap
MaxCodes == 3              \* candidate codes crawl_year may go past
MaxRequestsPerMinute == 2  \* config.crawler.max_requests_per_minute
RequestDelaySeconds == 1   \* config.crawler.request_delay_ms / 1000
MaxRequestsPerProxy == 2   \* config.proxy.max_requests
TickSeconds == 15          \* the seconds one step of the clock takes
ExampleYear == 1990        \* a year candidate codes are made for
SmallSequences == 2        \* the sequences 0..SmallSequences get a code

(* Program constants *)

Window == 60               \* the rate window, seconds
StartSequence == 2         \* int(config.crawler.y_start_value_new_year)
BackoffBase == 2           \* time.sleep(2 ** attempt)
PadWidth == 5              \* str(sequence).zfill(5)

---------------------------------------------------------------------------
(* Helpers *)

Min(a, b) == IF a < b THEN a ELSE b

RECURSIVE Pow(_, _)
Pow(b, n) == IF n = 0 THEN 1 ELSE b * Pow(b, n - 1)

Last(s) == s[Len(s)]

\* the clock moves on by d seconds
Advance(e, d) == Min(e + d, Window)

\* what a network operation can take: no time to speak of, or so long that
\* the rate window is over
Durations == {0, Window}

\* load_proxies: the static list first, then the active rows of the table
PoolOf(n) == [i \in 1..n |-> i]
InDb(k) == k > NumStatic


---------------------------------------------------------------------------
(* ProxyManager, src/proxy/proxy_manager.py *)

\* get_next_proxy: the index after one rotation of a pool of n > 0 entries
NextIndex(i, n) == (i + 1) % n

\* mutant: a rotation leaves the request counts alone
CountsKept(counts) == counts

\* get_next_proxy: "self.proxy_request_count = {}", the whole dict
CountsAfterRotation(counts) == [x \in {} |-> 0]

\* the counts after k rotations
RECURSIVE CountsAfter(_, _)
CountsAfter(counts, k) ==
    IF k = 0 THEN counts ELSE CountsAfter(CountsAfterRotation(counts), k - 1)

\* the index after k rotations
RECURSIVE IndexAfter(_, _, _)
IndexAfter(i, n, k) == IF k = 0 THEN i ELSE IndexAfter(NextIndex(i, n), n, k - 1)

\* the pool entry get_working_proxy probes in its j-th iteration (j >= 1),
\* the index being i when the call starts: it rotates, then probes
ProbedAt(pool, i, j) == pool[IndexAfter(i, Len(pool), j) + 1]

\* update_proxy_status: the row of that host:port, when the table has one
update_proxy_status(db, key, is_working) ==
    IF key \in DOMAIN db THEN [db EXCEPT ![key] = is_working] ELSE db

\* an event of the call history
Event(ev, key, ok, n, what) ==
    [ev |-> ev, proxy |-> key, ok |-> ok, n |-> n, what |-> what]

\* get_working_proxy, probe k being the first that answers 200 (k = 0: none
\* does).  It makes passes = k rotations and probes (Len(pool) when k = 0);
\* every probe is followed by update_proxy_status with the probe's answer.
Passes(pool, k) == IF k = 0 THEN Len(pool) ELSE k

\* mutant: only the proxy that answered has its status recorded
DbAfterProbesOnlyHealthy(db, pool, i, k, j) ==
    IF k = 0 THEN db ELSE update_proxy_status(db, ProbedAt(pool, i, k), TRUE)

RECURSIVE DbAfterProbes(_, _, _, _, _)
DbAfterProbes(db, pool, i, k, j) ==
    \* the table after iterations j, j+1, ..., Passes(pool, k)
    IF j > Passes(pool, k) THEN db
    ELSE DbAfterProbes(update_proxy_status(db, ProbedAt(pool, i, j), j = k),
                       pool, i, k, j + 1)

StatusEvents(pool, i, k) ==
    [j \in 1..Passes(pool, k) |->
        Event("status", ProbedAt(pool, i, j), j = k, j, "probe")]

\* what get_working_proxy returns
WorkingProxy(pool, i, k) == IF k = 0 THEN 0 ELSE ProbedAt(pool, i, k)

get_working_proxy(k) ==
    LET n == Len(proxies)
        passes == Passes(proxies, k)
    IN  /\ k \in 0..n
        /\ current_proxy_index' =
              IF n = 0 THEN current_proxy_index
              ELSE IndexAfter(current_proxy_index, n, passes)
        /\ current_proxy' =
              IF n = 0 THEN current_proxy
              ELSE ProbedAt(proxies, current_proxy_index, passes)
        /\ proxy_request_count' = CountsAfter(proxy_request_count, passes)
        /\ proxy_db' = DbAfterProbes(proxy_db, proxies, current_proxy_index, k, 1)
        /\ UNCHANGED proxies

\* mutant: the loop goes on after a probe answered and returns the last
\* proxy that did
RECURSIVE LastAliveFrom(_, _, _, _)
LastAliveFrom(pool, i, alive, j) ==
    IF j = 0 THEN 0
    ELSE IF ProbedAt(pool, i, j) \in alive THEN j
         ELSE LastAliveFrom(pool, i, alive, j - 1)
LastAlive(pool, i, alive) == LastAliveFrom(pool, i, alive, Len(pool))

\* the loop of get_working_proxy from its j-th iteration on, test_proxy
\* answering True for the proxies of alive: the iteration that returns, 0
\* when the loop runs out
RECURSIVE ProbeLoop(_, _, _, _)
ProbeLoop(pool, i, alive, j) ==
    IF j > Len(pool) THEN 0
    ELSE IF ProbedAt(pool, i, j) \in alive THEN j
         ELSE ProbeLoop(pool, i, alive, j + 1)
FirstAlive(pool, i, alive) == ProbeLoop(pool, i, alive, 1)

\* get_next_proxy, counts being the dict when it is called
get_next_proxy(counts) ==
    IF Len(proxies) = 0
    THEN /\ proxy_request_count' = counts
         /\ UNCHANGED <<current_proxy_index, current_proxy>>
    ELSE /\ current_proxy_index' = NextIndex(current_proxy_index, Len(proxies))
         /\ current_proxy' =
               proxies[NextIndex(current_proxy_index, Len(proxies)) + 1]
         /\ proxy_request_count' = CountsAfterRotation(counts)

\* get_random_proxy, random.choice picking p
get_random_proxy(p) ==
    /\ current_proxy' = p
    /\ UNCHANGED <<current_proxy_index, proxy_request_count>>

\* mutant: reading the current proxy moves on to the next one
get_current_proxy_rotates == get_next_proxy(proxy_request_count)

\* get_current_proxy: "return self.current_proxy", nothing else
get_current_proxy ==
    UNCHANGED <<current_proxy_index, current_proxy, proxy_request_count>>

\* the dict with the count of key one higher
Counted(counts, key) ==
    [x \in DOMAIN counts \cup {key} |->
        IF x = key
        THEN (IF key \in DOMAIN counts THEN counts[key] ELSE 0) + 1
        ELSE counts[x]]

\* mutant: the rotation waits until the cap is exceeded
ReachesCapLate(counts, key) == Counted(counts, key)[key] > MaxRequestsPerProxy

\* increment_request_count: TRUE when the count of key reaches the cap
ReachesCap(counts, key) == Counted(counts, key)[key] >= MaxRequestsPerProxy

increment_request_count ==
    IF current_proxy = 0
    THEN UNCHANGED <<current_proxy_index, current_proxy, proxy_request_count>>
    ELSE IF ReachesCap(proxy_request_count, current_proxy)
         THEN get_next_proxy(Counted(proxy_request_count, current_proxy))
         ELSE /\ proxy_request_count' =
                    Counted(proxy_request_count, current_proxy)
              /\ UNCHANGED <<current_proxy_index, current_proxy>>

handle_proxy_error ==
    IF current_proxy = 0
    THEN UNCHANGED <<current_proxy_index, current_proxy, proxy_request_count>>
    ELSE get_next_proxy(proxy_request_count)

---------------------------------------------------------------------------
(* ProxyManager, src/src/proxy_manager.py: the manager is a record m of its
   fields; a method gives the manager after the call and whether it raised *)

Outcome(m, raised) == [m |-> m, raised |-> raised]

\* get_next_proxy: "% len(self.proxy_list)" raises ZeroDivisionError on an
\* empty list, before anything is assigned
list_get_next_proxy(m) ==
    IF Len(m.proxy_list) = 0 THEN Outcome(m, TRUE)
    ELSE LET i == (m.current_proxy_index + 1) % Len(m.proxy_list)
         IN  Outcome([m EXCEPT !.current_proxy_index = i,
                               !.current_proxy = m.proxy_list[i + 1],
                               !.request_count = 0],
                     FALSE)

list_get_current_proxy(m) == Outcome(m, FALSE)

\* mutant: the proxy is changed after one request more than max_requests
list_increment_request_count_late(m) ==
    LET counted == [m EXCEPT !.request_count = m.request_count + 1]
    IN  IF counted.request_count > m.max_requests
        THEN list_get_next_proxy(counted)
        ELSE Outcome(counted, FALSE)

list_increment_request_count(m) ==
    LET counted == [m EXCEPT !.request_count = m.request_count + 1]
    IN  IF counted.request_count >= m.max_requests
        THEN list_get_next_proxy(counted)
        ELSE Outcome(counted, FALSE)

\* mutant: the error is logged and the proxy kept
list_handle_proxy_error_stays(m) == Outcome(m, FALSE)

list_handle_proxy_error(m) == list_get_next_proxy(m)

---------------------------------------------------------------------------
(* WIPOCrawler, src/src/crawlers/crawler.py *)

\* mutant: the call sleeps only when the count is above the cap
RateLimitSleepsAboveCap(e, count) == e < Window /\ count > MaxRequestsPerMinute

\* _check_rate_limit: TRUE when the call sleeps
RateLimitSleeps(e, count) == e < Window /\ count >= MaxRequestsPerMinute

\* mutant: no elif branch, the window is reset only after a sleep
RateLimitResetsOnlyAfterSleep(e, count) == RateLimitSleeps(e, count)

\* _check_rate_limit: TRUE when the call resets the count and the window
RateLimitResets(e, count) == RateLimitSleeps(e, count) \/ e >= Window

_check_rate_limit ==
    /\ request_count' =
          IF RateLimitResets(elapsed, request_count) THEN 0 ELSE request_count
    /\ elapsed' =
          IF RateLimitResets(elapsed, request_count) THEN 0 ELSE elapsed

\* ProxyManager.__init__ of src/src/proxy_manager.py
ListProxyManager(proxy_list) ==
    [proxy_list |-> proxy_list,
     max_requests |-> MaxRequestsPerProxy,
     current_proxy_index |-> 0,
     request_count |-> 0,
     current_proxy |-> IF Len(proxy_list) > 0 THEN proxy_list[1] ELSE 0]

\* the database before the first save: no trademark, no status history
NoRows == [trademarks |-> <<>>, status_history |-> <<>>]

\* a _make_request call of the list-based crawler (src/src/crawler.py): where
\* it is, its max_retries and retry_count, what it returned, and its
\* history: the proxy and the outcome of each attempt, and the manager's
\* index when the call started
Call(at, max, retry_count, resp, tried, outs, start) ==
    [pc |-> at, max_retries |-> max, retry_count |-> retry_count,
     response |-> resp, tried |-> tried, outcomes |-> outs, start |-> start]

\* no call is under way
NoCall == Call("idle", 0, 0, "none", <<>>, <<>>, 0)

\* no operation has been called on its own yet
NoOp == [op |-> "none"]

\* the crawler and its ProxyManager right after construction
Constructed ==
    /\ max_retries \in 0..MaxRetriesCap
    /\ \E n \in 0..MaxProxies : proxies = PoolOf(n)
    /\ current_proxy_index = 0
    /\ current_proxy = IF Len(proxies) > 0 THEN proxies[1] ELSE 0
    /\ proxy_request_count = [x \in {} |-> 0]
    /\ proxy_db = [k \in {x \in 1..Len(proxies) : InDb(x)} |-> TRUE]
    /\ request_count = 0
    /\ elapsed = 0
    /\ sequence = 0
    /\ success_count = 0
    /\ result = "none"
    /\ phase = "none"
    /\ attempt = 0
    /\ proxy = 0
    /\ response = "none"
    /\ failure = "none"
    /\ trace = <<>>
    /\ outcomes = <<>>
    /\ sleeps = <<>>
    /\ calllog = <<>>
    /\ rate_checks = 0
    /\ delays = 0
    /\ stop = "none"
    /\ db_session = NoRows
    /\ list_call = NoCall

Init ==
    /\ pc = "idle"
    /\ Constructed
    /\ list_pm = ListProxyManager(<<>>)
    /\ callers = <<>>
    /\ hist = NoOp

\* what a time.sleep does to a pending stop signal: it returns as it would
\* without one, and no statement after it looks at the signal
AtSleepBoundary(s) == IF s = "raised" THEN "slept" ELSE s

\* session.request when a sleep has gone by since the signal
AtRequest(s) == IF s = "slept" THEN "ignored" ELSE s

\* crawl_year is called, some time after the crawler was constructed
crawl_year ==
    /\ pc = "idle"
    /\ \E d \in Durations : elapsed' = Advance(elapsed, d)
    /\ sequence' = StartSequence
    /\ success_count' = 0
    /\ pc' = "loop"
    /\ UNCHANGED <<max_retries, hist, proxyVars, request_count, result,
                   trace, callVars, list_pm, compVars, delays, stop>>

\* crawl_trademark calls validate_trademark_code, which calls _make_request
crawl_trademark ==
    /\ pc = "loop"
    /\ sequence < StartSequence + MaxCodes
    /\ phase' = "validate"
    /\ rate_checks' = 0
    /\ pc' = "mr_enter"
    /\ UNCHANGED <<max_retries, hist, proxyVars, rateVars, crawlVars,
                   attempt, proxy, response, failure, outcomes, sleeps,
                   calllog, list_pm, compVars, delays, stop>>

\* _make_request up to the head of its loop: the rate-limit check
_make_request ==
    /\ pc = "mr_enter"
    /\ _check_rate_limit
    /\ rate_checks' = rate_checks + 1
    /\ stop' = IF RateLimitSleeps(elapsed, request_count)
               THEN AtSleepBoundary(stop) ELSE stop
    /\ calllog' =
          IF RateLimitSleeps(elapsed, request_count)
          THEN <<Event("rate_sleep", 0, TRUE, Window - elapsed, phase)>>
          ELSE <<>>
    /\ outcomes' = <<>>
    /\ sleeps' = <<>>
    /\ attempt' = 0
    /\ proxy' = 0
    /\ response' = "none"
    /\ failure' = "none"
    /\ pc' = IF max_retries = 0 THEN "mr_return" ELSE "mr_proxy"
    /\ UNCHANGED <<max_retries, hist, proxyVars, crawlVars, phase, list_pm, compVars,
                   delays>>

\* mutant: a missing proxy is slept on and retried like a failed request
AfterGetProxyRetries(p) == IF p = 0 THEN "mr_backoff" ELSE "mr_send"

\* if not proxy: return None
AfterGetProxy(p) == IF p = 0 THEN "mr_return" ELSE "mr_send"

\* one attempt: proxy = get_working_proxy(); return None when there is none
AttemptProxy ==
    /\ pc = "mr_proxy"
    /\ \E k \in 0..Len(proxies) :
          /\ get_working_proxy(k)
          /\ proxy' = WorkingProxy(proxies, current_proxy_index, k)
          /\ calllog' = StatusEvents(proxies, current_proxy_index, k)
                 \o <<Event("get_proxy",
                            WorkingProxy(proxies, current_proxy_index, k),
                            k # 0, attempt, phase)>>
          /\ pc' = AfterGetProxy(WorkingProxy(proxies, current_proxy_index, k))
          /\ failure' = IF k = 0 THEN "no_proxy" ELSE "none"
    /\ \E d \in Durations : elapsed' = Advance(elapsed, d)
    /\ UNCHANGED <<max_retries, hist, request_count, crawlVars, phase,
                   attempt, response, outcomes, sleeps, rate_checks, list_pm, compVars,
                   delays, stop>>

Outcomes == {"ok", "auth", "http_error", "transport"}

\* mutant: 401/403 goes through raise_for_status like any other error status
AfterSendRetriesAuth(outcome) ==
    IF outcome = "ok" THEN "mr_return" ELSE "mr_except"

\* mutant: no raise_for_status, an error status is returned like 401/403
AfterSendIgnoresStatus(outcome) ==
    IF outcome = "transport" THEN "mr_except" ELSE "mr_return"

\* where the attempt goes after the target answered (or did not)
AfterSend(outcome) ==
    CASE outcome = "ok" -> "mr_return"
      [] outcome = "auth" -> "mr_return"
      [] OTHER -> "mr_except"

\* session.request; the 401/403 test; raise_for_status
AttemptSend ==
    /\ pc = "mr_send"
    /\ \E outcome \in Outcomes :
          /\ request_count' =
                IF outcome = "transport" THEN request_count ELSE request_count + 1
          /\ calllog' = Append(calllog,
                 Event("request", proxy, outcome = "ok", attempt, outcome))
          /\ outcomes' = Append(outcomes, outcome)
          /\ response' = IF outcome = "ok" THEN "ok" ELSE "none"
          /\ failure' = IF outcome = "ok" THEN "none" ELSE outcome
          /\ pc' = AfterSend(outcome)
    /\ stop' = AtRequest(stop)
    /\ \E d \in Durations : elapsed' = Advance(elapsed, d)
    /\ UNCHANGED <<max_retries, hist, proxyVars, crawlVars, phase, attempt,
                   proxy, sleeps, rate_checks, list_pm, compVars, delays>>

\* mutant: the test is off by one
LastAttemptOffByOne(a) == a = max_retries

\* does the handler give up after this attempt?
LastAttempt(a) == a = max_retries - 1

\* except RequestException: mark the proxy, give up or go on to the sleep
AttemptExcept ==
    /\ pc = "mr_except"
    /\ proxy_db' = update_proxy_status(proxy_db, proxy, FALSE)
    /\ calllog' = Append(calllog, Event("status", proxy, FALSE, attempt, "except"))
    /\ pc' = IF LastAttempt(attempt) THEN "mr_return" ELSE "mr_backoff"
    /\ UNCHANGED <<max_retries, hist, proxies, current_proxy_index,
                   current_proxy, proxy_request_count, rateVars, crawlVars,
                   phase, attempt, proxy, response, failure, outcomes,
                   sleeps, rate_checks, list_pm, compVars, delays, stop>>

BackoffSeconds(a) == Pow(BackoffBase, a)

\* mutant: the proxy is fetched once, outside the loop, and reused
AfterBackoffReusesProxy == "mr_send"

\* mutant: a retry goes through the whole of _make_request again
AfterBackoffReenters == "mr_enter"

\* the next iteration of the loop starts with get_working_proxy
AfterBackoff == "mr_proxy"

\* time.sleep(2 ** attempt), then the next iteration of the loop
AttemptBackoff ==
    /\ pc = "mr_backoff"
    /\ calllog' = Append(calllog,
           Event("sleep", proxy, FALSE, BackoffSeconds(attempt), "backoff"))
    /\ sleeps' = Append(sleeps, BackoffSeconds(attempt))
    /\ elapsed' = Advance(elapsed, BackoffSeconds(attempt))
    /\ attempt' = attempt + 1
    /\ stop' = AtSleepBoundary(stop)
    /\ pc' = AfterBackoff
    /\ UNCHANGED <<max_retries, hist, proxyVars, request_count, crawlVars,
                   phase, proxy, response, failure, outcomes, rate_checks,
                   list_pm, compVars, delays>>

\* an entry of the crawl history: op returned ok for candidate seq; got tells
\* whether _make_request had handed it a response
Step(op, seq, got, ok) == [op |-> op, seq |-> seq, got |-> got, ok |-> ok]

\* validate_trademark_code: False without a response, else whether the body
\* is a JSON list whose first value is the term
ValidateResult(resp, matches) == resp # "none" /\ matches

\* mutant: the validation's answer is ignored
ValidatedGoesOnAlways(valid) == TRUE

\* crawl_trademark: "if not self.validate_trademark_code(term): return False, None"
ValidatedGoesOn(valid) == valid

\* validate_trademark_code after _make_request returned, and what
\* crawl_trademark and crawl_year do with its answer
ValidateReturn ==
    /\ pc = "mr_return"
    /\ phase = "validate"
    /\ \E matches \in BOOLEAN :
          LET valid == ValidateResult(response, matches)
              goes == ValidatedGoesOn(valid)
          IN  /\ response = "none" => ~matches
              /\ trace' = Append(trace, Step("validate", sequence, response, valid))
              /\ phase' = IF goes THEN "fetch" ELSE phase
              /\ rate_checks' = IF goes THEN 0 ELSE rate_checks
              /\ delays' = 0
              /\ pc' = IF goes THEN "mr_enter" ELSE "done"
              /\ result' = IF goes THEN result ELSE success_count
    /\ UNCHANGED <<max_retries, hist, proxyVars, rateVars, sequence,
                   success_count, attempt, proxy, response, failure,
                   outcomes, sleeps, calllog, list_pm, compVars, stop>>

\* validate_trademark_code raises: the body is a JSON list whose first element
\* has no get (AttributeError is not among the exceptions it catches), and
\* neither crawl_trademark nor crawl_year catches it
ValidateRaises ==
    /\ pc = "mr_return"
    /\ phase = "validate"
    /\ response = "ok"
    /\ pc' = "raised"
    /\ UNCHANGED <<max_retries, hist, proxyVars, rateVars, crawlVars,
                   callVars, list_pm, compVars, delays, stop>>

\* fetch_trademark_data: None without a response or when the body is not XML
FetchResult(resp, parses) == resp # "none" /\ parses

\* mutant: a failed fetch is skipped and the loop goes on
FetchFailedSkips == "delay"

\* where crawl_year goes when crawl_trademark got no record from the fetch:
\* it returns (False, None) and crawl_year breaks out of its loop
FetchFailed == "done"

\* fetch_trademark_data after _make_request returned
FetchReturn ==
    /\ pc = "mr_return"
    /\ phase = "fetch"
    /\ \E parses \in BOOLEAN :
          LET fetched == FetchResult(response, parses)
          IN  /\ response = "none" => ~parses
              /\ trace' = Append(trace, Step("fetch", sequence, response, fetched))
              /\ pc' = IF fetched THEN "save" ELSE FetchFailed
              /\ result' = IF ~fetched /\ FetchFailed = "done"
                           THEN success_count ELSE result
    /\ UNCHANGED <<max_retries, hist, proxyVars, rateVars, sequence,
                   success_count, callVars, list_pm, compVars, delays, stop>>

\* mutant: the increment is missing
SuccessCountNotCounted(c, saved) == c

\* mutant: the increment comes before the save
SuccessCountBeforeSave(c, saved) == c + 1

\* success_count after save_trademark committed (saved) or raised
SuccessCountAfterSave(c, saved) == IF saved THEN c + 1 ELSE c

\* save_trademark commits, or raises out of crawl_year
SaveTrademark ==
    /\ pc = "save"
    /\ \E saved \in BOOLEAN :
          /\ trace' = Append(trace, Step("save", sequence, "ok", saved))
          /\ success_count' = SuccessCountAfterSave(success_count, saved)
          /\ pc' = IF saved THEN "delay" ELSE "raised"
    /\ UNCHANGED <<max_retries, hist, proxyVars, rateVars, sequence, result,
                   callVars, list_pm, compVars, delays, stop>>

\* mutant: a sequence number is skipped
NextSequenceSkips(q) == q + 2

\* sequence += 1
NextSequence(q) == q + 1

\* mutant: the loop goes round without the sleep
NoPolitenessSleep(n) == n

\* time.sleep(config.crawler.request_delay_ms / 1000): one more sleep
AfterPolitenessSleep(n) == n + 1

\* sequence += 1 and the politeness sleep
NextCandidate ==
    /\ pc = "delay"
    /\ sequence' = NextSequence(sequence)
    /\ elapsed' = Advance(elapsed, RequestDelaySeconds)
    /\ delays' = AfterPolitenessSleep(delays)
    /\ stop' = AtSleepBoundary(stop)
    /\ pc' = "loop"
    /\ UNCHANGED <<max_retries, hist, proxyVars, request_count,
                   success_count, result, trace, callVars, list_pm, compVars>>

Next ==
    \/ crawl_year
    \/ crawl_trademark
    \/ _make_request
    \/ AttemptProxy
    \/ AttemptSend
    \/ AttemptExcept
    \/ AttemptBackoff
    \/ ValidateReturn
    \/ ValidateRaises
    \/ FetchReturn
    \/ SaveTrademark
    \/ NextCandidate

Spec == Init /\ [][Next]_vars

---------------------------------------------------------------------------
(* The candidate code of crawl_trademark; a string is the sequence of its
   characters *)

DigitChars == <<"0", "1", "2", "3", "4", "5", "6", "7", "8", "9">>

\* str(n) and f"{n}" for an int n >= 0
RECURSIVE Str(_)
Str(n) ==
    IF n < 10 THEN <<DigitChars[n + 1]>>
    ELSE Str(n \div 10) \o <<DigitChars[(n % 10) + 1]>>

\* mutant: nothing is padded
zfill_nothing(str, width) == str

\* str.zfill(width) for a string without sign
RECURSIVE zfill(_, _)
zfill(str, width) ==
    IF Len(str) >= width THEN str ELSE zfill(<<"0">> \o str, width)

\* term = f"VN-4-{year}-{str(sequence).zfill(5)}"
Term(y, q) ==
    <<"V", "N", "-", "4", "-">> \o Str(y) \o <<"-">> \o zfill(Str(q), PadWidth)

Years == {ExampleYear, ExampleYear + 1, ExampleYear \div 10, ExampleYear * 10}
Sequences ==
    (0..SmallSequences) \cup {7, 10 * SmallSequences}
        \cup {Pow(10, PadWidth - 1), Pow(10, PadWidth) - 1, Pow(10, PadWidth)}

\* hist in this specification: the last two (year, sequence) pairs
\* crawl_trademark was called with, and the term it made for each
TermHist(y, q, y2, q2) ==
    [op |-> "crawl_trademark", year |-> y, sequence |-> q, term |-> Term(y, q),
     year2 |-> y2, sequence2 |-> q2, term2 |-> Term(y2, q2)]

InitTerm ==
    /\ pc = "term"
    /\ Constructed
    /\ list_pm = ListProxyManager(<<>>)
    /\ callers = <<>>
    /\ \E y \in Years, q \in Sequences : hist = TermHist(y, q, y, q)

\* crawl_trademark(year, sequence) up to the term
MakeTerm ==
    /\ pc = "term"
    /\ \E y \in Years, q \in Sequences :
          hist' = TermHist(y, q, hist.year, hist.sequence)
    /\ UNCHANGED <<pc, max_retries, proxyVars, rateVars, crawlVars, callVars,
                   delays, stop, list_pm, compVars>>

NextTerm ==
    \/ MakeTerm

SpecTerm == InitTerm /\ [][NextTerm]_vars

---------------------------------------------------------------------------
(* The crawl with an external stop signal *)

\* somebody asks the running crawl to stop
StopSignal ==
    /\ pc \notin {"idle", "done", "raised"}
    /\ stop = "none"
    /\ stop' = "raised"
    /\ UNCHANGED <<pc, max_retries, hist, proxyVars, rateVars, crawlVars,
                   callVars, delays, list_pm, compVars>>

NextStop ==
    \/ StopSignal
    \/ Next

SpecStop == Init /\ [][NextStop]_vars

---------------------------------------------------------------------------
(* The rate limit on its own: _check_rate_limit before each request, with
   time passing in steps of TickSeconds *)

\* hist in this specification. e, count: elapsed and request_count as the
\* last check found them; slept: that check slept; first: seconds since the
\* first request counted in the current window (-1: none yet), saturated
\* at Window; woke: the same, at the moment the wait of that check ended
RateHist(op, e, count, slept, first, woke) ==
    [op |-> op, e |-> e, count |-> count, slept |-> slept, first |-> first,
     woke |-> woke]

SinceFirst(first, d) == IF first < 0 THEN first ELSE Min(first + d, Window)

InitRate ==
    /\ pc = "rl_idle"
    /\ Constructed
    /\ list_pm = ListProxyManager(<<>>)
    /\ callers = <<>>
    /\ hist = RateHist("none", 0, 0, FALSE, -1, -1)

\* time passes between two statements
RL_Tick ==
    /\ pc \in {"rl_idle", "rl_checked"}
    /\ elapsed' = Advance(elapsed, TickSeconds)
    /\ hist' = [hist EXCEPT !.op = "tick",
                            !.first = SinceFirst(hist.first, TickSeconds)]
    /\ UNCHANGED <<pc, max_retries, proxyVars, request_count, crawlVars,
                   callVars, list_pm, compVars, delays, stop>>

\* self._check_rate_limit()
RL_Check ==
    /\ pc = "rl_idle"
    /\ _check_rate_limit
    /\ hist' = RateHist("check", elapsed, request_count,
                        RateLimitSleeps(elapsed, request_count),
                        IF RateLimitResets(elapsed, request_count)
                        THEN -1 ELSE hist.first,
                        IF RateLimitSleeps(elapsed, request_count)
                        THEN SinceFirst(hist.first, Window - elapsed)
                        ELSE hist.first)
    /\ pc' = "rl_checked"
    /\ UNCHANGED <<max_retries, proxyVars, crawlVars, callVars, list_pm, compVars,
                   delays, stop>>

\* session.request answered: self.request_count += 1
RL_Send ==
    /\ pc = "rl_checked"
    /\ request_count' = request_count + 1
    /\ hist' = [hist EXCEPT !.op = "send",
                            !.first = IF hist.first < 0 THEN 0 ELSE hist.first]
    /\ pc' = "rl_idle"
    /\ UNCHANGED <<max_retries, proxyVars, elapsed, crawlVars, callVars,
                   list_pm, compVars, delays, stop>>

NextRate ==
    \/ RL_Tick
    \/ RL_Check
    \/ RL_Send

SpecRate == InitRate /\ [][NextRate]_vars

---------------------------------------------------------------------------
(* The ProxyManager on its own: its methods called in any order *)

\* hist in this specification.  index, current: current_proxy_index and
\* current_proxy before the last operation (for get_next_proxy: before the
\* first of the run consecutive rotations the last one belongs to); db:
\* proxy_db before it; capped: the proxy whose count last reached the cap
\* (0: none did).  For get_working_proxy, alive: the proxies test_proxy
\* answers True for; probes: the probes made; result: the proxy returned
\* (0: None); worn: the proxies probed with a count at the cap
PMHist(op, index, current, run, db, capped, alive, probes, got, worn) ==
    [op |-> op, index |-> index, current |-> current, run |-> run, db |-> db,
     capped |-> capped, alive |-> alive, probes |-> probes,
     result |-> got, worn |-> worn]

\* the update_proxy_status calls of the last get_working_proxy, in order
StatusCalls ==
    StatusEvents(proxies, hist.index,
                 IF hist.result = 0 THEN 0 ELSE hist.probes)

\* hist after an operation other than get_next_proxy and get_working_proxy
PMDid(op, capped) ==
    PMHist(op, current_proxy_index, current_proxy, 0, proxy_db, capped,
           {}, 0, 0, {})

PoolKeys == {proxies[i] : i \in 1..Len(proxies)}

InitPM ==
    /\ pc = "pm"
    /\ Constructed
    /\ list_pm = ListProxyManager(<<>>)
    /\ callers = <<>>
    /\ hist = PMDid("none", 0)

PM_get_next_proxy ==
    /\ pc = "pm"
    /\ get_next_proxy(proxy_request_count)
    /\ hist' =
          IF hist.op = "get_next_proxy" /\ hist.run < Len(proxies)
          THEN [hist EXCEPT !.run = hist.run + 1]
          ELSE PMHist("get_next_proxy", current_proxy_index, current_proxy, 1,
                      proxy_db, hist.capped, {}, 0, 0, {})
    /\ UNCHANGED <<pc, max_retries, proxies, proxy_db, rateVars, crawlVars,
                   callVars, list_pm, compVars, delays, stop>>

PM_get_random_proxy ==
    /\ pc = "pm"
    /\ \E p \in PoolKeys : get_random_proxy(p)
    /\ hist' = PMDid("get_random_proxy", hist.capped)
    /\ UNCHANGED <<pc, max_retries, proxies, proxy_db, rateVars, crawlVars,
                   callVars, list_pm, compVars, delays, stop>>

PM_increment_request_count ==
    /\ pc = "pm"
    /\ increment_request_count
    /\ hist' = PMDid("increment_request_count",
                     IF current_proxy # 0
                        /\ ReachesCap(proxy_request_count, current_proxy)
                     THEN current_proxy ELSE hist.capped)
    /\ UNCHANGED <<pc, max_retries, proxies, proxy_db, rateVars, crawlVars,
                   callVars, list_pm, compVars, delays, stop>>

PM_handle_proxy_error ==
    /\ pc = "pm"
    /\ handle_proxy_error
    /\ hist' = PMDid("handle_proxy_error", hist.capped)
    /\ UNCHANGED <<pc, max_retries, proxies, proxy_db, rateVars, crawlVars,
                   callVars, list_pm, compVars, delays, stop>>

\* the proxies get_working_proxy probes while their count is at the cap
WornProbed(pool, i, counts, k) ==
    {ProbedAt(pool, i, j) : j \in
        {x \in 1..Passes(pool, k) :
            LET c == CountsAfter(counts, x)
                key == ProbedAt(pool, i, x)
            IN  key \in DOMAIN c /\ c[key] >= MaxRequestsPerProxy}}

\* what the operation right before was, when it was a get_working_proxy:
\* the proxy it returned and the proxies that were alive for it
PrevWorking ==
    IF hist.op = "get_working_proxy"
    THEN [result |-> hist.result, alive |-> hist.alive]
    ELSE [result |-> 0, alive |-> {}]

PM_get_working_proxy ==
    /\ pc = "pm"
    /\ \E alive \in SUBSET PoolKeys :
          LET k == FirstAlive(proxies, current_proxy_index, alive)
          IN  /\ get_working_proxy(k)
              /\ hist' = PMHist("get_working_proxy", current_proxy_index,
                                current_proxy, 0, proxy_db, hist.capped, alive,
                                Passes(proxies, k),
                                WorkingProxy(proxies, current_proxy_index, k),
                                WornProbed(proxies, current_proxy_index,
                                           proxy_request_count, k))
                         @@ [prev |-> PrevWorking]
    /\ UNCHANGED <<pc, max_retries, rateVars, crawlVars, callVars, list_pm, compVars,
                   delays, stop>>

\* hist after get_current_proxy.  index, current, counts: the state before
\* the first of the run consecutive calls the last one belongs to (run
\* stops counting at 2), result: what the last call returned
PM_get_current_proxy ==
    /\ pc = "pm"
    /\ get_current_proxy
    /\ hist' =
          IF hist.op = "get_current_proxy"
          THEN [hist EXCEPT !.run = 2, !.result = current_proxy]
          ELSE PMHist("get_current_proxy", current_proxy_index, current_proxy,
                      1, proxy_db, hist.capped, {}, 0, current_proxy, {})
               @@ [counts |-> proxy_request_count]
    /\ UNCHANGED <<pc, max_retries, proxies, proxy_db, rateVars, crawlVars,
                   callVars, list_pm, compVars, delays, stop>>

NextPM ==
    \/ PM_get_next_proxy
    \/ PM_get_random_proxy
    \/ PM_get_current_proxy
    \/ PM_increment_request_count
    \/ PM_handle_proxy_error
    \/ PM_get_working_proxy

SpecPM == InitPM /\ [][NextPM]_vars

---------------------------------------------------------------------------
(* The two ProxyManager implementations, each with its methods called in
   any order: pc = "pm" for src/proxy/proxy_manager.py, pc = "lpm" for
   src/src/proxy_manager.py *)

\* hist for the list-based manager: before is the manager before the last
\* call (for get_current_proxy: before the first of the run consecutive
\* calls), raised tells whether the call raised, result what it returned
ListHist(op, before, run, raised, got) ==
    [op |-> op, before |-> before, run |-> run, raised |-> raised,
     result |-> got]

\* counted with the history: start, the index after the last call of
\* get_next_proxy or handle_proxy_error (after construction when there was
\* none), and served, the increment_request_count calls made since
Served(start, served) == [start |-> start, served |-> served]

ServedAfter(op, out) ==
    CASE op = "increment_request_count" ->
             Served(hist.start, hist.served + 1)
      [] op \in {"get_next_proxy", "handle_proxy_error"} ->
             Served(out.m.current_proxy_index, 0)
      [] OTHER -> Served(hist.start, hist.served)

\* ProxyManager(proxy_list, max_requests)
InitList ==
    /\ pc = "lpm"
    /\ Constructed
    /\ \E n \in 0..MaxProxies, max_requests \in 1..MaxRequestsPerProxy :
          list_pm = [ListProxyManager(PoolOf(n))
                        EXCEPT !.max_requests = max_requests]
    /\ callers = <<>>
    /\ hist = ListHist("none", list_pm, 0, FALSE, 0) @@ Served(0, 0)

\* a method of the list-based manager was called: out is its outcome, got
\* what it returned
ListCall(op, out, got) ==
    /\ list_pm' = out.m
    /\ hist' = ListHist(op, list_pm, 1, out.raised, got) @@ ServedAfter(op, out)
    /\ UNCHANGED <<pc, max_retries, proxyVars, rateVars, crawlVars, callVars,
                   delays, stop, compVars>>

L_get_next_proxy ==
    /\ pc = "lpm"
    /\ ListCall("get_next_proxy", list_get_next_proxy(list_pm),
                list_get_next_proxy(list_pm).m.current_proxy)

L_get_current_proxy ==
    /\ pc = "lpm"
    /\ list_pm' = list_get_current_proxy(list_pm).m
    /\ hist' =
          IF hist.op = "get_current_proxy"
          THEN [hist EXCEPT !.run = 2, !.result = list_pm.current_proxy]
          ELSE ListHist("get_current_proxy", list_pm, 1, FALSE,
                        list_pm.current_proxy)
               @@ Served(hist.start, hist.served)
    /\ UNCHANGED <<pc, max_retries, proxyVars, rateVars, crawlVars, callVars,
                   delays, stop, compVars>>

L_increment_request_count ==
    /\ pc = "lpm"
    /\ list_pm.request_count <= list_pm.max_requests
    /\ hist.served <= Len(list_pm.proxy_list) * list_pm.max_requests
    /\ ListCall("increment_request_count",
                list_increment_request_count(list_pm), 0)

L_handle_proxy_error ==
    /\ pc = "lpm"
    /\ ListCall("handle_proxy_error", list_handle_proxy_error(list_pm), 0)

NextList ==
    \/ L_get_next_proxy
    \/ L_get_current_proxy
    \/ L_increment_request_count
    \/ L_handle_proxy_error

InitManagers == InitPM \/ InitList

NextManagers ==
    \/ PM_get_next_proxy
    \/ PM_get_random_proxy
    \/ PM_get_current_proxy
    \/ PM_increment_request_count
    \/ PM_handle_proxy_error
    \/ PM_get_working_proxy
    \/ L_get_next_proxy
    \/ L_get_current_proxy
    \/ L_increment_request_count
    \/ L_handle_proxy_error

SpecManagers == InitManagers /\ [][NextManagers]_vars


---------------------------------------------------------------------------
(* save_trademark on a database session, src/src/crawlers/crawler.py *)

MaxSaves == 3              \* save_trademark calls explored

TrademarkCodes == 1..MaxCodes
Statuses == {"filed", "registered"}

\* db.query(Trademark).filter(trademark_code == code).first(): the id of the
\* row with that code, 0 (None) when there is none
FirstWithCode(rows, code) ==
    IF \E i \in DOMAIN rows : rows[i].trademark_code = code
    THEN CHOOSE i \in DOMAIN rows : rows[i].trademark_code = code
    ELSE 0

\* existing_trademark.id when the status history is made: the id of the row
\* that was found, None (0) for a Trademark that was only added to the
\* session, for the key is set when the session flushes, at the commit
IdAtHistory(existing) == existing

\* save_trademark up to the commit: what the commit writes
save_trademark(d, code, status) ==
    LET existing == FirstWithCode(d.trademarks, code)
        trademarks ==
            IF existing > 0
            THEN [d.trademarks EXCEPT ![existing].status = status]
            ELSE Append(d.trademarks,
                        [id |-> Len(d.trademarks) + 1, trademark_code |-> code,
                         status |-> status])
        status_history ==
            [trademark_id |-> IdAtHistory(existing), status |-> status]
    IN  [trademarks |-> trademarks,
         status_history |-> Append(d.status_history, status_history)]

\* the last save_trademark call: its data, the rows before it and whether
\* the commit went through
SaveHist(code, status, before, committed) ==
    [op |-> "save_trademark", trademark_code |-> code, status |-> status,
     before |-> before, committed |-> committed]

InitSave ==
    /\ pc = "db"
    /\ Constructed
    /\ list_pm = ListProxyManager(<<>>)
    /\ callers = <<>>
    /\ hist = NoOp

\* save_trademark(trademark_data, db): the commit goes through, or it raises,
\* the session is rolled back and the exception goes to the caller
DB_save_trademark ==
    /\ pc = "db"
    /\ Len(db_session.status_history) < MaxSaves
    /\ \E code \in TrademarkCodes, status \in Statuses, committed \in BOOLEAN :
          /\ db_session' = IF committed
                           THEN save_trademark(db_session, code, status)
                           ELSE db_session
          /\ hist' = SaveHist(code, status, db_session, committed)
    /\ UNCHANGED <<pc, max_retries, proxyVars, rateVars, crawlVars, callVars,
                   delays, stop, list_pm, callers, list_call>>

NextSave == DB_save_trademark

SpecSave == InitSave /\ [][NextSave]_vars

---------------------------------------------------------------------------
(* Callers sharing one WIPOCrawler, src/src/crawlers/crawler.py.  Nothing
   in the class takes a lock, so the statements of concurrent _make_request
   calls interleave; each call here gets its proxy and its response on the
   first attempt, so one attempt is all max_retries has to allow. *)

CountCap == 5              \* the counts explored: a count read before a reset
                           \* and stored after it undoes the reset, so the
                           \* count of two callers has no bound of its own

\* a caller between two calls; slept: has one of its rate checks slept?
Waiting(slept) == [at |-> "idle", slept |-> slept, seen |-> 0]

InitThreads ==
    /\ pc = "threads"
    /\ Constructed
    /\ max_retries = 1
    /\ Len(proxies) > 0
    /\ list_pm = ListProxyManager(<<>>)
    /\ \E n \in {1, 2} : callers = [i \in 1..n |-> Waiting(FALSE)]
    /\ hist = NoOp

\* self._check_rate_limit() up to time.sleep, or to its end when it does
\* not sleep
Caller_check_rate_limit(i) ==
    /\ callers[i].at = "idle"
    /\ IF RateLimitSleeps(elapsed, request_count)
       THEN /\ callers' = [callers EXCEPT ![i].at = "sleeping",
                                          ![i].slept = TRUE]
            /\ UNCHANGED rateVars
       ELSE /\ callers' = [callers EXCEPT ![i].at = "checked"]
            /\ _check_rate_limit
    /\ UNCHANGED <<pc, max_retries, proxyVars, crawlVars, callVars, delays,
                   stop, list_pm, db_session, list_call, hist>>

\* time.sleep(sleep_time) is over: the count and the window start again
Caller_wake(i) ==
    /\ callers[i].at = "sleeping"
    /\ request_count' = 0
    /\ elapsed' = 0
    /\ callers' = [callers EXCEPT ![i].at = "checked"]
    /\ UNCHANGED <<pc, max_retries, proxyVars, crawlVars, callVars, delays,
                   stop, list_pm, db_session, list_call, hist>>

\* proxy = self.proxy_manager.get_working_proxy(), a probe answering
Caller_get_working_proxy(i) ==
    /\ callers[i].at = "checked"
    /\ \E k \in 1..Len(proxies) :
          /\ get_working_proxy(k)
          /\ callers' = [callers EXCEPT ![i].at = "proxy"]
    /\ \E d \in Durations : elapsed' = Advance(elapsed, d)
    /\ UNCHANGED <<pc, max_retries, request_count, crawlVars, callVars,
                   delays, stop, list_pm, db_session, list_call, hist>>

\* response = self.session.request(...), the target answering 200
Caller_request(i) ==
    /\ callers[i].at = "proxy"
    /\ callers' = [callers EXCEPT ![i].at = "sent"]
    /\ \E d \in Durations : elapsed' = Advance(elapsed, d)
    /\ UNCHANGED <<pc, max_retries, proxyVars, request_count, crawlVars,
                   callVars, delays, stop, list_pm, db_session, list_call,
                   hist>>

\* self.request_count += 1 reads the count ...
Caller_read_count(i) ==
    /\ callers[i].at = "sent"
    /\ request_count < CountCap
    /\ callers' = [callers EXCEPT ![i].at = "read", ![i].seen = request_count]
    /\ UNCHANGED <<pc, max_retries, proxyVars, rateVars, crawlVars, callVars,
                   delays, stop, list_pm, db_session, list_call, hist>>

\* ... and stores it, one more; the call returns the response
Caller_write_count(i) ==
    /\ callers[i].at = "read"
    /\ request_count' = callers[i].seen + 1
    /\ callers' = [callers EXCEPT ![i] = Waiting(callers[i].slept)]
    /\ UNCHANGED <<pc, max_retries, proxyVars, elapsed, crawlVars, callVars,
                   delays, stop, list_pm, db_session, list_call, hist>>

\* a step of one of the callers
T_check_rate_limit ==
    /\ pc = "threads"
    /\ \E i \in DOMAIN callers : Caller_check_rate_limit(i)

T_wake ==
    /\ pc = "threads"
    /\ \E i \in DOMAIN callers : Caller_wake(i)

T_get_working_proxy ==
    /\ pc = "threads"
    /\ \E i \in DOMAIN callers : Caller_get_working_proxy(i)

T_request ==
    /\ pc = "threads"
    /\ \E i \in DOMAIN callers : Caller_request(i)

T_read_count ==
    /\ pc = "threads"
    /\ \E i \in DOMAIN callers : Caller_read_count(i)

T_write_count ==
    /\ pc = "threads"
    /\ \E i \in DOMAIN callers : Caller_write_count(i)

NextThreads ==
    \/ T_check_rate_limit
    \/ T_wake
    \/ T_get_working_proxy
    \/ T_request
    \/ T_read_count
    \/ T_write_count

SpecThreads == InitThreads /\ [][NextThreads]_vars

---------------------------------------------------------------------------
(* WIPOCrawler._make_request of src/src/crawler.py, on the list-based
   ProxyManager *)

InitListCrawler ==
    /\ pc = "lc"
    /\ Constructed
    /\ \E n \in 0..MaxProxies, max_requests \in 1..MaxRequestsPerProxy :
          list_pm = [ListProxyManager(PoolOf(n))
                        EXCEPT !.max_requests = max_requests]
    /\ callers = <<>>
    /\ hist = NoOp

\* max_retries = len(self.proxy_manager.proxy_list); retry_count = 0
LC_make_request ==
    /\ pc = "lc"
    /\ list_call.pc = "idle"
    /\ list_call' = Call("loop", Len(list_pm.proxy_list), 0, "none", <<>>, <<>>,
                         list_pm.current_proxy_index)
    /\ UNCHANGED <<pc, max_retries, proxyVars, rateVars, crawlVars, callVars,
                   delays, stop, list_pm, db_session, callers, hist>>

\* what session.get and raise_for_status make of an attempt: a response, an
\* error status (raise_for_status raises for 401 and 403 as for any other)
\* or no answer
ListOutcomes == {"ok", "http_error", "transport"}

\* one iteration of the loop: get_current_proxy, the request, then
\* increment_request_count and return, or handle_proxy_error and
\* retry_count += 1
LC_attempt ==
    /\ pc = "lc"
    /\ list_call.pc = "loop"
    /\ list_call.retry_count < list_call.max_retries
    /\ \E outcome \in ListOutcomes :
          LET p == list_pm.current_proxy
              tried == Append(list_call.tried, p)
              outs == Append(list_call.outcomes, outcome)
          IN  IF outcome = "ok"
              THEN /\ list_pm' = list_increment_request_count(list_pm).m
                   /\ list_call' = [list_call EXCEPT
                         !.pc = "returned", !.response = "ok",
                         !.tried = tried, !.outcomes = outs]
              ELSE /\ list_pm' = list_handle_proxy_error(list_pm).m
                   /\ list_call' = [list_call EXCEPT
                         !.retry_count = @ + 1,
                         !.tried = tried, !.outcomes = outs]
    /\ UNCHANGED <<pc, max_retries, proxyVars, rateVars, crawlVars, callVars,
                   delays, stop, db_session, callers, hist>>

\* the loop is over: logger.error("All proxies failed"); return None
LC_all_failed ==
    /\ pc = "lc"
    /\ list_call.pc = "loop"
    /\ list_call.retry_count >= list_call.max_retries
    /\ list_call' = [list_call EXCEPT !.pc = "returned", !.response = "none"]
    /\ UNCHANGED <<pc, max_retries, proxyVars, rateVars, crawlVars, callVars,
                   delays, stop, list_pm, db_session, callers, hist>>

\* the caller has the result and may call again
LC_returned ==
    /\ pc = "lc"
    /\ list_call.pc = "returned"
    /\ list_call' = NoCall
    /\ UNCHANGED <<pc, max_retries, proxyVars, rateVars, crawlVars, callVars,
                   delays, stop, list_pm, db_session, callers, hist>>

NextListCrawler ==
    \/ LC_make_request
    \/ LC_attempt
    \/ LC_all_failed
    \/ LC_returned

SpecListCrawler == InitListCrawler /\ [][NextListCrawler]_vars

---------------------------------------------------------------------------
(* Properties of crawl_year and crawl_trademark *)

InCall == pc \in {"mr_enter", "mr_proxy", "mr_send", "mr_except", "mr_backoff",
                  "mr_return"}

Entries(op) == {i \in 1..Len(trace) : trace[i].op = op}
OkEntries(op) == {i \in Entries(op) : trace[i].ok}
Returned(op, seq, ok) ==
    \E i \in Entries(op) : trace[i].seq = seq /\ trace[i].ok = ok

\* every fetch and every save so far succeeded
AllFetchSaveOk == \A i \in Entries("fetch") \cup Entries("save") : trace[i].ok

\* validation succeeded for s, ..., s+n-1 and failed at s+n
ValidatedExactly(n) ==
    /\ \A j \in 0..(n - 1) : Returned("validate", StartSequence + j, TRUE)
    /\ Returned("validate", StartSequence + n, FALSE)

\* C1: if validation succeeds for s, s+1, ..., s+n-1 and fails at s+n, and
\* every fetch and save succeeds, crawl_year returns n and no validate or
\* fetch is ever made for a sequence above s+n.
C1_ReturnsCountOfValidated ==
    \A n \in 0..MaxCodes :
        (ValidatedExactly(n) /\ AllFetchSaveOk) =>
            /\ pc = "done"
            /\ result = n
            /\ sequence = StartSequence + n
            /\ \A i \in 1..Len(trace) : trace[i].seq <= StartSequence + n

C1_Witness ==
    /\ ValidatedExactly(2)
    /\ AllFetchSaveOk
    /\ pc = "done"
    /\ result = 2

\* C2: when the validation of the starting code fails on the very first
\* call, crawl_year returns 0 and there is no fetch request and no save.
C2_FirstValidationFails ==
    (Len(trace) >= 1 /\ trace[1] = Step("validate", StartSequence, trace[1].got, FALSE)) =>
        /\ pc = "done"
        /\ result = 0
        /\ Len(trace) = 1
        /\ Entries("fetch") = {}
        /\ Entries("save") = {}
        /\ phase = "validate"

C2_Witness ==
    /\ Len(trace) = 1
    /\ trace[1] = Step("validate", StartSequence, "ok", FALSE)
    /\ pc = "done"
    /\ result = 0

\* the fetch got a response whose body did not parse
ParseFailure(e) == e.op = "fetch" /\ e.got = "ok" /\ ~e.ok

\* C3 (as claimed): a fetch that fails to parse does not end the year's
\* crawl; the candidate is skipped and the sequence goes on.
C3_ParseFailureSkips ==
    (Len(trace) >= 1 /\ ParseFailure(Last(trace))) => pc \in {"delay", "loop"}

\* the sequence numbers saved so far
SavedSeqs == {trace[i].seq : i \in OkEntries("save")}

\* C4: success_count always counts exactly the codes validated, fetched and
\* saved successfully, each once, and that is the value crawl_year returns.
C4_CountsSavedCodes ==
    /\ success_count = Cardinality(SavedSeqs)
    /\ Cardinality(OkEntries("save")) = Cardinality(SavedSeqs)
    /\ \A q \in SavedSeqs : Returned("validate", q, TRUE) /\ Returned("fetch", q, TRUE)
    /\ pc = "done" => result = Cardinality(SavedSeqs)
    /\ pc # "done" => result = "none"

C4_Witness ==
    /\ pc = "done"
    /\ result = 2
    /\ Cardinality(SavedSeqs) = 2
    /\ \E i \in Entries("fetch") : ~trace[i].ok

\* C5: one candidate at a time, validate(c) -> fetch(c) -> save(c) ->
\* validate(c+1): a fetch follows the successful validation of the same
\* code, a save its successful fetch, and the requests for the next code
\* come only after the save of the one before returned.
C5_OneCandidateAtATime ==
    /\ \A i \in 1..Len(trace) :
          /\ trace[i].op = "validate" =>
                \/ i = 1
                \/ trace[i - 1] = Step("save", trace[i].seq - 1, "ok", TRUE)
          /\ trace[i].op = "fetch" =>
                i > 1 /\ trace[i - 1] = Step("validate", trace[i].seq, "ok", TRUE)
          /\ trace[i].op = "save" =>
                i > 1 /\ trace[i - 1] = Step("fetch", trace[i].seq, "ok", TRUE)
    /\ (InCall /\ phase = "validate") =>
          \/ trace = <<>>
          \/ Last(trace) = Step("save", sequence - 1, "ok", TRUE)
    /\ (InCall /\ phase = "fetch") =>
          /\ trace # <<>>
          /\ Last(trace) = Step("validate", sequence, "ok", TRUE)
    /\ pc = "save" =>
          /\ trace # <<>>
          /\ Last(trace) = Step("fetch", sequence, "ok", TRUE)

C5_Witness ==
    /\ pc = "mr_send"
    /\ phase = "validate"
    /\ sequence = StartSequence + 1
    /\ Len(trace) = 3

\* the validations so far, in order
Validations == SelectSeq(trace, LAMBDA e : e.op = "validate")

\* C6: the sequence numbers validated in one crawl_year call are start,
\* start+1, start+2, ... in that order, none skipped or repeated, up to the
\* one at which the crawl ends.
C6_ValidatedInSequence ==
    /\ \A i \in 1..Len(Validations) : Validations[i].seq = StartSequence + i - 1
    /\ (InCall /\ phase = "validate") => sequence = StartSequence + Len(Validations)
    /\ pc = "done" => Validations[Len(Validations)].seq = sequence

C6_Witness ==
    /\ pc = "done"
    /\ Len(Validations) = 3
    /\ Validations[3].seq = StartSequence + 2

---------------------------------------------------------------------------
(* Properties of _make_request *)

\* the call is over: _make_request returned, and possibly its caller too
CallOver == pc \in {"mr_return", "done", "save", "raised"}

\* the backoff sleeps of a call in which n attempts failed and were retried
BackoffSleeps(n) == [i \in 1..n |-> Pow(2, i - 1)]

AllTransport == \A i \in 1..Len(outcomes) : outcomes[i] = "transport"

\* C7: when every attempt of a call fails at transport level, a working
\* proxy being there for each, the call issues exactly max_retries target
\* requests, sleeps 2^0, 2^1, ..., 2^(max_retries-2) between them in that
\* order, does not sleep after the last one, and reports failure.
C7_RetriesThenFails ==
    (pc = "mr_return" /\ AllTransport /\ failure # "no_proxy") =>
        /\ Len(outcomes) = max_retries
        /\ sleeps = BackoffSleeps(IF max_retries = 0 THEN 0 ELSE max_retries - 1)
        /\ response = "none"
        /\ max_retries > 0 => Last(calllog).ev = "status"

C7_Witness ==
    /\ pc = "mr_return"
    /\ max_retries = 3
    /\ outcomes = <<"transport", "transport", "transport">>
    /\ sleeps = <<1, 2>>
    /\ response = "none"

\* C8: a 401 or 403 on the first attempt ends the call at once with
\* failure: no second attempt, no backoff sleep, whatever max_retries is.
C8_AuthFailsAtOnce ==
    (Len(outcomes) >= 1 /\ outcomes[1] = "auth") =>
        /\ CallOver
        /\ outcomes = <<"auth">>
        /\ sleeps = <<>>
        /\ attempt = 0
        /\ response = "none"
        /\ Last(calllog).ev = "request"

C8_Witness ==
    /\ pc = "mr_return"
    /\ outcomes = <<"auth">>
    /\ max_retries = 3
    /\ response = "none"

Failing(e) == e.ev = "request" /\ e.what \in {"transport", "http_error"}
MarkedDown(e, p) == e.ev = "status" /\ e.what = "except" /\ e.proxy = p /\ ~e.ok

\* the attempt's request failed and its proxy was marked next, nothing in
\* between; m is the place of the mark in the attempt's history
FailedThenMarked(m) ==
    /\ m >= 2
    /\ Len(calllog) >= m
    /\ Failing(calllog[m - 1])
    /\ calllog[m - 1].proxy = proxy
    /\ MarkedDown(calllog[m], proxy)
    /\ proxy \in DOMAIN proxy_db => ~proxy_db[proxy]

\* C9: every attempt that fails with a RequestException has the proxy of
\* that attempt passed to update_proxy_status(proxy, False) before the
\* backoff sleep and before the retry, and every attempt sends through the
\* proxy get_working_proxy returned in that same attempt.
C9_MarksProxyThenRetriesAfresh ==
    /\ pc = "mr_backoff" => FailedThenMarked(Len(calllog))
    /\ (pc = "mr_proxy" /\ attempt > 0) =>
          /\ Last(calllog).ev = "sleep"
          /\ FailedThenMarked(Len(calllog) - 1)
    /\ (pc = "mr_return" /\ failure \in {"transport", "http_error"}) =>
          FailedThenMarked(Len(calllog))
    /\ pc = "mr_send" =>
          /\ Last(calllog).ev = "get_proxy"
          /\ Last(calllog).n = attempt
          /\ Last(calllog).proxy = proxy
          /\ proxy # 0
    /\ pc = "mr_except" =>
          /\ Failing(Last(calllog))
          /\ Last(calllog).n = attempt
          /\ Last(calllog).proxy = proxy

C9_Witness ==
    /\ pc = "mr_send"
    /\ attempt = 1
    /\ outcomes = <<"transport">>
    /\ sleeps = <<1>>
    /\ proxy \in DOMAIN proxy_db

\* C10: when get_working_proxy returns none in an attempt, first or later,
\* the call fails at once: no target request in that attempt, no backoff
\* sleep after it, and the attempts left are not made.
C10_NoProxyFailsAtOnce ==
    /\ failure = "no_proxy" =>
          /\ CallOver
          /\ response = "none"
          /\ proxy = 0
          /\ Len(outcomes) = attempt
          /\ Len(sleeps) = attempt
          /\ Last(calllog).ev = "get_proxy"
          /\ ~Last(calllog).ok
    /\ (InCall /\ proxy = 0 /\ pc \notin {"mr_enter", "mr_proxy"}) =>
          failure = "no_proxy" \/ max_retries = 0

C10_Witness ==
    /\ pc = "mr_return"
    /\ failure = "no_proxy"
    /\ attempt = 1
    /\ attempt < max_retries - 1
    /\ Len(proxies) > 0

---------------------------------------------------------------------------
(* Properties of the rate limit and of the proxy counters inside a crawl *)

\* C11: in any execution of _make_request the rate-limit check runs exactly
\* once, before the first proxy selection and the first attempt, however
\* many retries the call performs.  (The call is at "mr_enter" before the
\* check and at "mr_proxy" with attempt = 0 right after it.)
C11_RateCheckOncePerCall ==
    /\ pc = "mr_enter" => rate_checks = 0
    /\ (InCall /\ pc # "mr_enter") => rate_checks = 1

C11_Witness ==
    /\ pc = "mr_return"
    /\ attempt = 2
    /\ Len(outcomes) = 3
    /\ rate_checks = 1

\* the usage counter of proxy key p (a key the dict does not hold counts 0)
UsageCount(p) ==
    IF p \in DOMAIN proxy_request_count THEN proxy_request_count[p] ELSE 0

\* C12: every successful request made through _make_request increments the
\* usage counter of the proxy that served it, and rotates to the next proxy
\* when that counter has reached max_requests.  So when a call returns a
\* response, the proxy that served it has been counted at least once,
\* unless the count reached max_requests and the manager rotated off it.
C12_SuccessCountsProxy ==
    (pc = "mr_return" /\ response = "ok") =>
        \/ UsageCount(proxy) >= 1
        \/ current_proxy # proxy
        \/ MaxRequestsPerProxy <= 1

\* the first _make_request of the crawl: its rate-limit check found the
\* count of the constructor, 0, so the caller has never blocked
FirstCall == InCall /\ phase = "validate" /\ sequence = StartSequence

\* C13: request_count exceeds max_requests_per_minute only if the caller
\* blocked in _check_rate_limit first; the count never passes the cap
\* through requests issued without blocking, the retried attempts inside
\* one _make_request call included.  So in the first call of a crawl,
\* where nobody has blocked yet, the count stays within the cap.
C13_CountWithinCap ==
    (FirstCall /\ MaxRequestsPerMinute >= 1) =>
        request_count <= MaxRequestsPerMinute

\* C19: when no healthy proxy is found in a full pool pass, only the
\* current request fails: crawl_year does not end the year's sequence as if
\* the candidate code were absent.
C19_NoProxyDoesNotEndYear ==
    ~(pc = "done" /\ failure = "no_proxy" /\ Len(proxies) > 0)

---------------------------------------------------------------------------
(* Properties of _check_rate_limit *)

\* C14: with a per-minute cap of N, the first N requests of a window pass
\* the rate-limit check without sleeping, and the (N+1)-th request in the
\* same window blocks until 60 seconds have elapsed since the first request
\* of that window (not since some earlier instant such as construction).
C14_BlocksAMinuteFromFirstRequest ==
    hist.op = "check" =>
        /\ hist.count < MaxRequestsPerMinute => ~hist.slept
        /\ (hist.slept /\ hist.woke >= 0) => hist.woke >= Window

\* C15: called 60 seconds or more after the window start, whatever the
\* count, _check_rate_limit does not sleep and resets the count to zero and
\* the window start to the current time before the current request is
\* counted; after a blocking wait the count is likewise zero and the window
\* start is the time the wait ended.
C15_ResetsWindow ==
    hist.op = "check" =>
        /\ hist.e >= Window =>
              ~hist.slept /\ request_count = 0 /\ elapsed = 0
        /\ hist.slept => request_count = 0 /\ elapsed = 0
        /\ (hist.e < Window /\ ~hist.slept) =>
              request_count = hist.count /\ elapsed = hist.e

C15_Witness ==
    /\ hist.op = "check"
    /\ hist.e >= Window
    /\ hist.count >= MaxRequestsPerMinute
    /\ request_count = 0

---------------------------------------------------------------------------
(* Properties of the ProxyManager *)

\* the d-th pool entry in circular order after index i, by position
Circ(i, d) == proxies[((i + d) % Len(proxies)) + 1]

\* the proxies the last get_working_proxy probed
Probed == {Circ(hist.index, d) : d \in 1..hist.probes}

\* C16: a proxy whose request count equals max_requests is never probed or
\* returned by get_working_proxy until a rotation has reset its counter.
C16_CappedProxyNotProbed ==
    hist.op = "get_working_proxy" =>
        /\ hist.worn = {}
        /\ hist.result # 0 => UsageCount(hist.result) < MaxRequestsPerProxy

C16_Witness ==
    /\ hist.op = "get_working_proxy"
    /\ hist.capped # 0
    /\ hist.result = hist.capped
    /\ UsageCount(hist.result) = 0

\* C17: get_working_proxy performs at most len(proxies) liveness probes per
\* call, returns the first proxy in circular order whose probe succeeds,
\* and returns none exactly when every proxy of the pool failed its probe
\* in that pass (and at once for an empty pool).
C17_FirstAliveInCircularOrder ==
    hist.op = "get_working_proxy" =>
        /\ hist.probes <= Len(proxies)
        /\ Len(proxies) = 0 => (hist.result = 0 /\ hist.probes = 0)
        /\ hist.result = 0 <=> hist.alive \cap PoolKeys = {}
        /\ hist.result = 0 => hist.probes = Len(proxies)
        /\ hist.result # 0 =>
              /\ hist.result \in hist.alive
              /\ hist.probes >= 1
              /\ hist.result = Circ(hist.index, hist.probes)
              /\ \A d \in 1..(hist.probes - 1) :
                    Circ(hist.index, d) \notin hist.alive

C17_Witness ==
    /\ hist.op = "get_working_proxy"
    /\ hist.result # 0
    /\ hist.probes >= 2
    /\ hist.index # 0

\* C18: when get_working_proxy returns, every proxy whose probe failed
\* during that pass has had update_proxy_status(proxy, False) called, and
\* the returned proxy, if any, is the only one of the pass recorded as
\* healthy.  (The call changes the row of the proxy when the table has it.)
C18_FailedProbesRecorded ==
    hist.op = "get_working_proxy" =>
        /\ Len(StatusCalls) = hist.probes
        /\ \A j \in 1..hist.probes :
              /\ StatusCalls[j].ev = "status"
              /\ StatusCalls[j].proxy = Circ(hist.index, j)
              /\ StatusCalls[j].ok = (Circ(hist.index, j) \in hist.alive)
              /\ StatusCalls[j].ok => StatusCalls[j].proxy = hist.result
        /\ \A key \in DOMAIN proxy_db :
              proxy_db[key] =
                 IF key \in Probed THEN key = hist.result ELSE hist.db[key]

C18_Witness ==
    /\ hist.op = "get_working_proxy"
    /\ hist.result # 0
    /\ \E key \in Probed \cap DOMAIN proxy_db :
          key # hist.result /\ hist.db[key] /\ ~proxy_db[key]

\* C20: for a pool of size k >= 1 and any starting index, k consecutive
\* rotations (get_next_proxy) bring current_proxy_index and current_proxy
\* back to their values before the first rotation, and fewer than k
\* rotations never do.
C20_FullTurnComesBack ==
    (hist.op = "get_next_proxy" /\ Len(proxies) >= 1) =>
        LET back == /\ current_proxy_index = hist.index
                    /\ current_proxy = hist.current
        IN  /\ hist.run = Len(proxies) => back
            /\ hist.run < Len(proxies) => ~back

\* the operations that rotate
Rotating == {"get_next_proxy", "handle_proxy_error", "increment_request_count"}

\* C21: in each ProxyManager implementation, rotating an empty pool fails
\* silently: get_next_proxy, and the operations that rotate through it
\* (handle_proxy_error, increment_request_count), return without raising
\* and leave the index, the current proxy and the counters unchanged.
C21_EmptyPoolFailsSilently ==
    /\ (pc = "pm" /\ Len(proxies) = 0 /\ hist.op \in Rotating) =>
          /\ current_proxy_index = hist.index
          /\ current_proxy = hist.current
          /\ proxy_request_count = [x \in {} |-> 0]
    /\ (pc = "lpm" /\ Len(list_pm.proxy_list) = 0 /\ hist.op \in Rotating) =>
          /\ ~hist.raised
          /\ list_pm = hist.before

\* C22: after any sequence of ProxyManager operations with a cap of at
\* least 1, no proxy's recorded request count is equal to or above
\* max_requests once increment_request_count has returned: reaching the cap
\* triggers the rotation, and the counter reset, inside the same operation.
C22_CountBelowCap ==
    (pc = "pm" /\ MaxRequestsPerProxy >= 1) =>
        /\ \A key \in DOMAIN proxy_request_count :
              proxy_request_count[key] < MaxRequestsPerProxy
        /\ (hist.op = "increment_request_count" /\ hist.current # 0) =>
              \/ /\ UsageCount(hist.current) \in 1..(MaxRequestsPerProxy - 1)
                 /\ current_proxy_index = hist.index
                 /\ current_proxy = hist.current
              \/ /\ hist.capped = hist.current
                 /\ proxy_request_count = [x \in {} |-> 0]
                 /\ current_proxy_index =
                       NextIndex(hist.index, Len(proxies))
                 /\ current_proxy = proxies[current_proxy_index + 1]

C22_Witness ==
    /\ pc = "pm"
    /\ hist.op = "increment_request_count"
    /\ hist.capped = hist.current
    /\ hist.current # 0
    /\ current_proxy_index # hist.index
    /\ proxy_request_count = [x \in {} |-> 0]

\* C23: for a non-empty pool, after any sequence of ProxyManager operations
\* (get_next_proxy, get_random_proxy, increment_request_count,
\* handle_proxy_error, get_working_proxy) there is exactly one current
\* proxy and it is the pool entry at current_proxy_index.
C23_CurrentIsEntryAtIndex ==
    (pc = "pm" /\ Len(proxies) >= 1) =>
        /\ current_proxy # 0
        /\ current_proxy_index \in 0..(Len(proxies) - 1)
        /\ current_proxy = proxies[current_proxy_index + 1]

\* C24: get_current_proxy returns the current proxy and leaves the pool,
\* the current index, the current proxy and every request counter
\* unchanged, so repeated calls with no other operation in between return
\* the same proxy.
C24_GetCurrentProxyReadsOnly ==
    /\ (pc = "pm" /\ hist.op = "get_current_proxy") =>
          /\ hist.result = current_proxy
          /\ hist.result = hist.current
          /\ current_proxy_index = hist.index
          /\ proxy_request_count = hist.counts
          /\ proxy_db = hist.db
    /\ (pc = "lpm" /\ hist.op = "get_current_proxy") =>
          /\ ~hist.raised
          /\ hist.result = list_pm.current_proxy
          /\ list_pm = hist.before

C24_Witness ==
    /\ pc = "pm"
    /\ hist.op = "get_current_proxy"
    /\ hist.run = 2
    /\ hist.result # 0
    /\ hist.result # proxies[current_proxy_index + 1]
    /\ proxy_request_count # [x \in {} |-> 0]

---------------------------------------------------------------------------
(* Properties of the crawl when something fails or has to wait *)

\* the last request of the current call was answered 401/403
AuthExpired == failure = "auth"

\* C25: once any request inside crawl_year receives a 401/403 response, the
\* run for that year ends: no further validate or fetch request is issued
\* in that call, and nothing is done to repair the credential (the history
\* of the attempt ends with the refused request).
C25_AuthEndsTheRun ==
    AuthExpired =>
        /\ pc \in {"mr_return", "done"}
        /\ Len(outcomes) >= 1 /\ Last(outcomes) = "auth"
        /\ Len(calllog) >= 1 /\ Last(calllog).ev = "request"
        /\ Last(calllog).what = "auth"
        /\ response = "none"
        /\ pc = "done" =>
              /\ result = success_count
              /\ Last(trace) = Step(phase, sequence, "none", FALSE)

C25_Witness ==
    /\ AuthExpired
    /\ pc = "done"
    /\ phase = "fetch"
    /\ success_count >= 1

\* C26: an authentication-expired outcome is surfaced to the caller: the
\* result of a crawl_year run halted by a 401/403 is distinguishable from
\* the result of one halted because the candidate code was not found, which
\* is the count of the records saved so far, a natural number.
C26_AuthIsSurfaced ==
    (pc = "done" /\ AuthExpired) => result \notin Nat

\* C27: if saving a fetched record fails in the persistence layer,
\* crawl_year logs the failure, does not retry the write, and continues with
\* the next candidate code; the failure neither ends nor aborts the crawl.
C27_SaveFailureGoesOn ==
    (Len(trace) >= 1 /\ Last(trace).op = "save" /\ ~Last(trace).ok) =>
        pc \in {"delay", "loop"}

\* C28: between any two consecutive validate calls of one crawl_year run
\* exactly one politeness sleep occurs, after the previous candidate has
\* been fully processed, whether or not that candidate produced a saved
\* record.
C28_OneSleepBetweenValidations ==
    /\ (pc = "loop" \/ (InCall /\ phase = "validate")) =>
          /\ delays = IF sequence = StartSequence THEN 0 ELSE 1
          /\ (sequence > StartSequence /\ pc \in {"loop", "mr_enter"}) =>
                Last(trace) = Step("save", sequence - 1, "ok", TRUE)
    /\ ((InCall /\ phase = "fetch") \/ pc \in {"save", "delay"}) => delays = 0
    /\ pc = "delay" => Last(trace) = Step("save", sequence, "ok", TRUE)

C28_Witness ==
    /\ InCall
    /\ phase = "validate"
    /\ pc = "mr_send"
    /\ sequence = StartSequence + 2
    /\ delays = 1

\* C29: an external stop signal raised during a crawl is observed at every
\* sleep boundary (rate-limit wait, retry backoff wait, politeness delay):
\* after the signal the run issues no further request once it has been
\* through a sleep.
C29_StopObservedAtSleeps == stop # "ignored"

---------------------------------------------------------------------------
(* Properties of the candidate code *)

\* the number a string of digits writes (-1 when it is no such string)
RECURSIVE Val(_)
Val(str) ==
    IF Len(str) = 0 \/ \E i \in 1..Len(str) :
                          \A d \in 1..10 : DigitChars[d] # str[i]
    THEN -1
    ELSE LET d == CHOOSE x \in 0..9 : DigitChars[x + 1] = Last(str)
         IN  IF Len(str) = 1 THEN d
             ELSE 10 * Val(SubSeq(str, 1, Len(str) - 1)) + d

\* how many digits n >= 0 takes
RECURSIVE NumDigits(_)
NumDigits(n) == IF n < 10 THEN 1 ELSE 1 + NumDigits(n \div 10)

\* term is "VN-4-", y in digits, "-", q in digits with zeros in front up to
\* PadWidth digits at least
WellFormed(term, y, q) ==
    LET ylen == NumDigits(y)
        qlen == IF NumDigits(q) > PadWidth THEN NumDigits(q) ELSE PadWidth
    IN  /\ Len(term) = 5 + ylen + 1 + qlen
        /\ SubSeq(term, 1, 5) = <<"V", "N", "-", "4", "-">>
        /\ Val(SubSeq(term, 6, 5 + ylen)) = y
        /\ term[6 + ylen] = "-"
        /\ Val(SubSeq(term, 7 + ylen, Len(term))) = q

\* C30: the candidate code for (year, sequence) is "VN-4-" + year + "-" +
\* sequence left-padded with zeros to at least five digits (year=1990,
\* sequence=7 gives "VN-4-1990-00007"), and distinct (year, sequence) pairs
\* always yield distinct codes.
C30_CandidateCode ==
    hist.op = "crawl_trademark" =>
        /\ WellFormed(hist.term, hist.year, hist.sequence)
        /\ (hist.year = 1990 /\ hist.sequence = 7) =>
              hist.term = <<"V", "N", "-", "4", "-", "1", "9", "9", "0", "-",
                            "0", "0", "0", "0", "7">>
        /\ (hist.year # hist.year2 \/ hist.sequence # hist.sequence2) =>
              hist.term # hist.term2

C30_Witness ==
    /\ hist.op = "crawl_trademark"
    /\ hist.year = 1990 /\ hist.sequence = 7
    /\ hist.year2 = 199 /\ hist.sequence2 = Pow(10, PadWidth)

---------------------------------------------------------------------------
(* Properties of save_trademark *)

Saved == pc = "db" /\ hist.op = "save_trademark" /\ hist.committed

\* C31: for each successfully fetched code, save_trademark appends exactly
\* one status-history entry, and that entry references the id of the
\* trademark record that was upserted, both when the record already existed
\* and when it is newly created in the same save.
C31_HistoryReferencesTrademark ==
    Saved =>
        /\ Len(db_session.status_history) =
              Len(hist.before.status_history) + 1
        /\ Last(db_session.status_history).trademark_id =
              FirstWithCode(db_session.trademarks, hist.trademark_code)

---------------------------------------------------------------------------
(* Properties of callers sharing a crawler *)

NobodySlept == \A i \in DOMAIN callers : ~callers[i].slept

\* C32: the rate-window and proxy state are unsafe for unsynchronized
\* sharing: with two callers running _make_request concurrently on one
\* crawler, each call succeeding on its first attempt, there is an
\* interleaving in which both pass _check_rate_limit and the window count
\* goes above max_requests_per_minute with neither caller having slept
\* (C32_Witness), although a single caller under the same conditions never
\* exceeds the cap.
C32_SingleCallerWithinCap ==
    (pc = "threads" /\ Len(callers) = 1) =>
        request_count <= MaxRequestsPerMinute

C32_Witness ==
    /\ pc = "threads"
    /\ Len(callers) = 2
    /\ request_count > MaxRequestsPerMinute
    /\ NobodySlept

---------------------------------------------------------------------------
(* Termination of _make_request *)

\* the call is in its loop or at its return
Started == InCall /\ pc # "mr_enter"

\* the liveness probes of the current attempt
ProbesOfAttempt ==
    Cardinality({i \in 1..Len(calllog) :
                    calllog[i].ev = "status" /\ calllog[i].what = "probe"})

\* how far the call is from its return: the attempts left, and within an
\* attempt the steps left
StepsLeft(p) ==
    CASE p = "mr_proxy" -> 4
      [] p = "mr_send" -> 3
      [] p = "mr_except" -> 2
      [] p = "mr_backoff" -> 1
      [] OTHER -> 0

Rank ==
    CASE pc = "mr_enter" -> 5 * max_retries + 5
      [] pc = "mr_return" -> 0
      [] OTHER -> 5 * (max_retries - attempt) + StepsLeft(pc)

\* C33: every _make_request call terminates: for any behaviour of the
\* network it issues at most max_retries target requests and at most
\* max_retries * len(proxies) liveness probes (at most len(proxies) in each
\* of at most max_retries attempts), sleeps a finite number of times, and
\* then returns either a response or failure (including max_retries = 0 and
\* an empty pool).  Every step of a call brings it nearer to its return, and
\* a call that has not returned can always take a step.
C33_CallTerminates ==
    /\ [](Started =>
            /\ Len(outcomes) <= max_retries
            /\ attempt <= max_retries
            /\ pc # "mr_return" => attempt < max_retries
            /\ ProbesOfAttempt <= Len(proxies)
            /\ ProbesOfAttempt + attempt * Len(proxies)
                  <= max_retries * Len(proxies)
            /\ Len(sleeps) <= attempt
            /\ rate_checks = 1
            /\ pc = "mr_return" =>
                  /\ response \in {"ok", "none"}
                  /\ response = "ok" <=>
                        (outcomes # <<>> /\ Last(outcomes) = "ok"))
    /\ []((InCall /\ pc # "mr_return") => ENABLED <<Next>>_vars)
    /\ [][(InCall /\ pc # "mr_return") => (InCall' /\ Rank' < Rank)]_vars

C33_Witness ==
    /\ pc = "mr_return"
    /\ max_retries = MaxRetriesCap
    /\ Len(proxies) = MaxProxies
    /\ Len(outcomes) = max_retries
    /\ Len(sleeps) = max_retries - 1
    /\ ProbesOfAttempt = Len(proxies)
    /\ response = "none"

---------------------------------------------------------------------------
(* The order of get_working_proxy *)

\* the last two operations were get_working_proxy calls and every probe of
\* both answered
TwoCallsAllAlive ==
    /\ hist.alive = PoolKeys
    /\ hist.prev.alive = PoolKeys
    /\ hist.prev.result # 0

\* C34: get_working_proxy advances the rotation before probing: the proxy
\* that was current when the call started is probed last, after every other
\* proxy, so with a pool of size >= 2 whose probes all succeed, consecutive
\* calls return the proxies in strict round-robin order and never the same
\* proxy twice in a row, and the returned proxy is the current proxy
\* afterwards.
C34_CurrentIsProbedLast ==
    (pc = "pm" /\ hist.op = "get_working_proxy" /\ Len(proxies) >= 1) =>
        /\ \A d \in 1..hist.probes :
              Circ(hist.index, d) = hist.current => d = Len(proxies)
        /\ hist.probes = Len(proxies) =>
              Circ(hist.index, hist.probes) = hist.current
        /\ hist.result # 0 => current_proxy = hist.result
        /\ (Len(proxies) >= 2 /\ TwoCallsAllAlive) =>
              /\ hist.result # hist.prev.result
              /\ hist.prev.result = proxies[hist.index + 1]
              /\ hist.result = Circ(hist.index, 1)

---------------------------------------------------------------------------
(* Error statuses in _make_request *)

RequestFailures == {"http_error", "transport"}

\* C35: in _make_request an HTTP error status other than 401/403 (for
\* example 404 or 500) is handled exactly like a transport failure: the
\* proxy used is recorded as unhealthy and the attempt is retried with
\* backoff while attempts remain, whereas 401/403 is never retried and never
\* marks the proxy unhealthy.
C35_ErrorStatusIsRetried ==
    Started =>
        /\ \A i \in 1..Len(outcomes) :
              /\ (outcomes[i] \in RequestFailures /\ i < Len(outcomes)) =>
                    /\ i <= Len(sleeps)
                    /\ sleeps[i] = Pow(BackoffBase, i - 1)
              /\ outcomes[i] = "auth" =>
                    (i = Len(outcomes) /\ pc = "mr_return")
        /\ (pc \in {"mr_backoff", "mr_return"} /\ failure \in RequestFailures) =>
              /\ FailedThenMarked(Len(calllog))
              /\ Last(outcomes) = failure
        /\ (pc = "mr_return" /\ failure \in RequestFailures) =>
              /\ Len(outcomes) = max_retries
              /\ Len(sleeps) = max_retries - 1
        /\ pc = "mr_backoff" =>
              /\ failure \in RequestFailures
              /\ Len(outcomes) < max_retries
        /\ failure = "auth" =>
              /\ pc = "mr_return"
              /\ Last(calllog).ev = "request"
              /\ \A i \in 1..Len(calllog) : calllog[i].what # "except"
              /\ Len(sleeps) = Len(outcomes) - 1

\* a 500 was answered through a proxy of the table, the proxy was marked
\* and the call is about to sleep before the retry
C35_Witness ==
    /\ pc = "mr_backoff"
    /\ failure = "http_error"
    /\ attempt = 1
    /\ outcomes = <<"transport", "http_error">>
    /\ proxy \in DOMAIN proxy_db
    /\ ~proxy_db[proxy]

---------------------------------------------------------------------------
(* The list-based ProxyManager, src/src/proxy_manager.py *)

\* C36: for the list-based ProxyManager with a non-empty list and
\* max_requests >= 1, after any sequence of increment_request_count,
\* handle_proxy_error and get_next_proxy calls: 0 <= request_count <
\* max_requests and current_proxy equals proxy_list[current_proxy_index];
\* with no errors, each proxy serves exactly max_requests successful
\* requests before the rotation moves to the next one (after served requests
\* the manager is served \div max_requests proxies further on, and the
\* current proxy has served the remainder).
C36_ListManagerInvariant ==
    (pc = "lpm" /\ Len(list_pm.proxy_list) >= 1) =>
        LET n == Len(list_pm.proxy_list)
            max == list_pm.max_requests
        IN  /\ 0 <= list_pm.request_count
            /\ list_pm.request_count < max
            /\ list_pm.current_proxy_index \in 0..(n - 1)
            /\ list_pm.current_proxy =
                  list_pm.proxy_list[list_pm.current_proxy_index + 1]
            /\ list_pm.current_proxy_index =
                  (hist.start + (hist.served \div max)) % n
            /\ list_pm.request_count = hist.served % max

\* two proxies have served max_requests requests each, after an error
C36_Witness ==
    /\ pc = "lpm"
    /\ Len(list_pm.proxy_list) >= 2
    /\ list_pm.max_requests >= 2
    /\ hist.start # 0
    /\ hist.served = 2 * list_pm.max_requests

---------------------------------------------------------------------------
(* _make_request of the list-based crawler, src/src/crawler.py *)

\* the pool entry d places after index i in circular order
ListCirc(i, d) ==
    list_pm.proxy_list[((i + d) % Len(list_pm.proxy_list)) + 1]

\* C37: the list-based crawler's _make_request makes at most len(proxy_list)
\* attempts per call, each failed attempt rotating to the next proxy so that
\* every proxy is tried at most once in circular order starting from the
\* current one; it returns the first successful response, and when all
\* attempts fail it returns none with the current proxy index back at its
\* value before the call.
C37_EachProxyOnceThenNone ==
    (pc = "lc" /\ list_call.pc # "idle") =>
        LET n == Len(list_pm.proxy_list)
            made == Len(list_call.tried)
        IN  /\ made <= n
            /\ Len(list_call.outcomes) = made
            /\ \A j \in 1..made :
                  list_call.tried[j] = ListCirc(list_call.start, j - 1)
            /\ \A j, k \in 1..made :
                  j # k => list_call.tried[j] # list_call.tried[k]
            /\ \A j \in 1..(made - 1) : list_call.outcomes[j] # "ok"
            /\ list_call.pc = "loop" =>
                  /\ list_call.response = "none"
                  /\ made = list_call.retry_count
                  /\ \A j \in 1..made : list_call.outcomes[j] # "ok"
                  /\ n > 0 => list_pm.current_proxy_index =
                                 (list_call.start + made) % n
            /\ (list_call.pc = "returned" /\ list_call.response = "ok") =>
                  Last(list_call.outcomes) = "ok"
            /\ (list_call.pc = "returned" /\ list_call.response # "ok") =>
                  /\ list_call.response = "none"
                  /\ made = n
                  /\ \A j \in 1..made : list_call.outcomes[j] # "ok"
                  /\ list_pm.current_proxy_index = list_call.start

\* every proxy of a pool of MaxProxies failed, from a start other than 0
C37_Witness ==
    /\ pc = "lc"
    /\ list_call.pc = "returned"
    /\ list_call.response = "none"
    /\ Len(list_call.tried) = MaxProxies
    /\ list_call.start # 0

=============================================================================
